---- MODULE Spec2Model ----
(***************************************************************************)
(* PathTrie (ZxillyFork/trie): a trie of string keys segmented by          *)
(* PathSegmenter.  Strings are sequences of one-character strings; a node  *)
(* is a record [Value, Children] kept in a heap indexed by node identity   *)
(* (a Go pointer); a nil Value pointer is Nil, a nil or empty Children map *)
(* is the empty function.                                                  *)
(***************************************************************************)
EXTENDS Integers, Sequences, FiniteSets, TLC

VARIABLES heap,     \* node identity -> [Value, Children]
          res,      \* the last call: operation, arguments, walker calls, result
          lastPut,  \* history: key -> value of the most recent Put of that key
          nputs,    \* history: number of Put calls so far
          merged    \* history: whether Merge has been called

vars == <<heap, res, lastPut, nputs, merged>>

\* Bounds of the model.
MaxLen == 2
MaxPuts == 2

Alphabet == {"/", "a"}
Values == {0, 1}
Zero == 0

\* A *T is <<>> (nil) or <<v>>; a *PathTrie is <<>> (nil) or a node identity;
\* an error is <<>> (nil) or the error the walker made for a key.
NilPtr == <<>>
Ptr(v) == <<v>>
Deref(p) == p[1]
NilNode == <<>>
NoErr == <<>>
EmptyMap == <<>>

RECURSIVE StringsOfLen(_)
StringsOfLen(n) ==
    IF n = 0 THEN {<<>>}
    ELSE {Append(s, c) : s \in StringsOfLen(n - 1), c \in Alphabet}

Keys == UNION {StringsOfLen(n) : n \in 0..MaxLen}

\* Go's s[a:b] on a 0-based string.
Slice(s, a, b) == SubSeq(s, a + 1, b)

\* strings.IndexRune(s, '/'): the 0-based index of the first '/', or -1.
IndexSlash(s) ==
    IF \E i \in 1..Len(s) : s[i] = "/"
    THEN (CHOOSE i \in 1..Len(s) : s[i] = "/" /\ \A j \in 1..(i - 1) : s[j] # "/") - 1
    ELSE -1

\* PathSegmenter(path, start): the segment starting at start, up to the next
\* '/' after its first character, and the index where the next one starts
\* (-1 when the returned segment is the last, or when there is none).
PathSegmenter(path, start) ==
    IF Len(path) = 0 \/ start < 0 \/ start > Len(path) - 1
    THEN [segment |-> <<>>, next |-> -1]
    ELSE LET end == IndexSlash(Slice(path, start + 1, Len(path)))
         IN  IF end = -1
             THEN [segment |-> Slice(path, start, Len(path)), next |-> -1]
             ELSE [segment |-> Slice(path, start, start + end + 1),
                   next |-> start + end + 1]

\* The root, allocated by NewPathTrie, and the node Put allocates for the
\* key prefix it has consumed: an identity no node of the heap has.
Root == <<"root">>
NewNode(h, prefix) ==
    <<prefix, CHOOSE k \in 0..Cardinality(DOMAIN h) :
                /\ <<prefix, k>> \notin DOMAIN h
                /\ \A j \in 0..(k - 1) : <<prefix, j>> \in DOMAIN h>>
newPathTrie == [Value |-> NilPtr, Children |-> EmptyMap]

\* m[k] of a Go map: nil for a missing key (and for the nil map).
Lookup(h, node, part) ==
    IF part \in DOMAIN h[node].Children THEN h[node].Children[part] ELSE NilNode

\* m[k] = v of a Go map.
MapSet(m, k, v) == [x \in DOMAIN m \cup {k} |-> IF x = k THEN v ELSE m[x]]

\* delete(m, k) of a Go map.
MapDelete(m, k) == [x \in DOMAIN m \ {k} |-> m[x]]

\* What a call returns: a value (ret), or nothing; panic when it panicked.
Returned(v) == [panic |-> FALSE, ret |-> <<v>>]
Panicked == [panic |-> TRUE, ret |-> <<>>]
ReturnedNothing == [panic |-> FALSE, ret |-> <<>>]

(***************************************************************************)
(* Get                                                                     *)
(***************************************************************************)
DerefValue(h, node) ==
    IF h[node].Value = NilPtr THEN Panicked ELSE Returned(Deref(h[node].Value))

RECURSIVE GetLoop(_, _, _, _)
GetLoop(h, key, node, start) ==
    LET s == PathSegmenter(key, start)
    IN  IF s.segment = <<>>
        THEN DerefValue(h, node)
        ELSE LET child == Lookup(h, node, s.segment)
             IN  IF child = NilNode
                 THEN Returned(Zero)
                 ELSE GetLoop(h, key, child, s.next)

GetOf(h, key) == GetLoop(h, key, Root, 0)

(***************************************************************************)
(* Put                                                                     *)
(***************************************************************************)
\* A walker key that is always the whole key.
ConsumedWholeKey(key, next) == key

\* The part of key consumed when the segmenter has returned index next.
Consumed(key, next) == IF next = -1 THEN key ELSE Slice(key, 0, next)

\* A Put that keeps the value a node already holds.
SetValueIfAbsent(h, node, value) ==
    IF h[node].Value = NilPtr THEN [h EXCEPT ![node].Value = Ptr(value)] ELSE h

SetValue(h, node, value) == [h EXCEPT ![node].Value = Ptr(value)]

RECURSIVE PutLoop(_, _, _, _, _)
PutLoop(h, key, value, node, start) ==
    LET s == PathSegmenter(key, start)
    IN  IF s.segment = <<>>
        THEN SetValue(h, node, value)
        ELSE LET found == Lookup(h, node, s.segment)
                 child == IF found = NilNode
                          THEN NewNode(h, Consumed(key, s.next))
                          ELSE found
                 h1 == IF found = NilNode
                       THEN [x \in DOMAIN h \cup {child} |->
                               IF x = child THEN newPathTrie
                               ELSE IF x = node
                                    THEN [h[x] EXCEPT
                                           !.Children = MapSet(@, s.segment, child)]
                                    ELSE h[x]]
                       ELSE h
             IN  PutLoop(h1, key, value, child, s.next)

PutOf(h, key, value) == PutLoop(h, key, value, Root, 0)

(***************************************************************************)
(* Walk and WalkPath.  A walker is any function of the caller: each of its *)
(* calls returns nil or an error of its own, recorded with the call.  A    *)
(* traversal is the sequence of walker calls made and the error returned;  *)
(* ranging over a Go map takes the entries in any order.                   *)
(***************************************************************************)
WalkerErr(key) == <<"walker error", key>>
WalkerResults(key) == {NoErr, WalkerErr(key)}

Call(key, value, err) == [key |-> key, value |-> value, err |-> err]
Outcome(calls, err) == [calls |-> calls, err |-> err]

\* A visit that takes a stored zero value for no value.
VisitNodeSkippingZero(h, node, key) ==
    IF h[node].Value # NilPtr /\ Deref(h[node].Value) # Zero
    THEN {Outcome(<<Call(key, Deref(h[node].Value), e)>>, e) : e \in WalkerResults(key)}
    ELSE {Outcome(<<>>, NoErr)}

\* if trie.Value != nil { if err := walker(key, *trie.Value); ... }
VisitNode(h, node, key) ==
    IF h[node].Value # NilPtr
    THEN {Outcome(<<Call(key, Deref(h[node].Value), e)>>, e) : e \in WalkerResults(key)}
    ELSE {Outcome(<<>>, NoErr)}

\* A traversal that goes on after the walker's error and returns the last one.
ThenIgnoringError(first, rest) ==
    {Outcome(first.calls \o r.calls, IF r.err # NoErr THEN r.err ELSE first.err) :
       r \in rest}

\* The rest of a traversal after the part first: nothing more when first
\* returned an error, else the outcomes of rest after first's calls.
Then(first, rest) ==
    IF first.err # NoErr
    THEN {first}
    ELSE {Outcome(first.calls \o r.calls, r.err) : r \in rest}

RECURSIVE walk(_, _, _), walkChildren(_, _, _, _)
walk(h, node, key) ==
    UNION {Then(own, walkChildren(h, node, key, DOMAIN h[node].Children)) :
             own \in VisitNode(h, node, key)}

walkChildren(h, node, key, todo) ==
    IF todo = {}
    THEN {Outcome(<<>>, NoErr)}
    ELSE UNION {UNION {Then(r, walkChildren(h, node, key, todo \ {part})) :
                         r \in walk(h, h[node].Children[part], key \o part)} :
                  part \in todo}

WalkOf(h) == walk(h, Root, <<>>)

RECURSIVE WalkPathLoop(_, _, _, _)
WalkPathLoop(h, key, node, start) ==
    LET s == PathSegmenter(key, start)
        child == Lookup(h, node, s.segment)
    IN  IF child = NilNode
        THEN {Outcome(<<>>, NoErr)}
        ELSE UNION {Then(own, IF s.next = -1
                              THEN {Outcome(<<>>, NoErr)}
                              ELSE WalkPathLoop(h, key, child, s.next)) :
                      own \in VisitNode(h, child, Consumed(key, s.next))}

WalkPathOf(h, key) ==
    UNION {Then(own, WalkPathLoop(h, key, Root, 0)) : own \in VisitNode(h, Root, <<>>)}

(***************************************************************************)
(* Merge and RecursiveDirectChildren                                       *)
(***************************************************************************)
\* for cPart, cChild := range sub { m[part+cPart] = cChild }
Splice(m, part, sub) ==
    [x \in DOMAIN m \cup {part \o c : c \in DOMAIN sub} |->
       IF \E c \in DOMAIN sub : x = part \o c
       THEN sub[CHOOSE c \in DOMAIN sub : x = part \o c]
       ELSE m[x]]

\* The entries Splice creates (those it does not merely overwrite).
Created(m, part, sub) == {part \o c : c \in DOMAIN sub} \ DOMAIN m

\* Merge ranges over trie.Children while it adds and deletes entries: the
\* entries present and not yet produced (todo) are produced in any order, and
\* an entry created during the range is produced later or skipped.  The
\* result is the set of heaps the call can leave.
RECURSIVE MergeNode(_, _), MergeRange(_, _, _), MergeChild(_, _, _, _)

\* A Merge that leaves the valueless child in place beside its spliced children.
MergeChildKeepingPart(h, node, part, rest) ==
    LET child == h[node].Children[part]
        sub == h[child].Children
        h2 == [h EXCEPT ![node].Children = Splice(@, part, sub)]
    IN  IF h[child].Value # NilPtr
        THEN MergeRange(h, node, rest)
        ELSE UNION {MergeRange(h2, node, rest \cup produced) :
                      produced \in SUBSET Created(h[node].Children, part, sub)}

\* A Merge that returns after the first child its range produces.
MergeRangeFirstChild(h, node, todo) ==
    IF todo = {}
    THEN {h}
    ELSE UNION {UNION {MergeChild(h1, node, part, {}) :
                         h1 \in MergeNode(h, h[node].Children[part])} :
                  part \in todo}

MergeNode(h, node) == MergeRange(h, node, DOMAIN h[node].Children)

MergeRange(h, node, todo) ==
    IF todo = {}
    THEN {h}
    ELSE UNION {UNION {MergeChild(h1, node, part, todo \ {part}) :
                         h1 \in MergeNode(h, h[node].Children[part])} :
                  part \in todo}

MergeChild(h, node, part, rest) ==
    LET child == h[node].Children[part]
        sub == h[child].Children
        h2 == [h EXCEPT ![node].Children = MapDelete(Splice(@, part, sub), part)]
    IN  IF h[child].Value # NilPtr
        THEN MergeRange(h, node, rest)
        ELSE UNION {MergeRange(h2, node, rest \cup produced) :
                      produced \in SUBSET Created(h[node].Children, part, sub)}

MergeOf(h) == MergeNode(h, Root)

\* RecursiveDirectChildren: the maps the call can return (the order of the
\* range decides which entry stays when two are written under one key).
RECURSIVE RecursiveDirectChildrenOf(_, _), DirectChildrenRange(_, _, _, _)

\* A RecursiveDirectChildren that goes on below a child that holds a value.
DirectChildrenRangePastValues(h, node, todo, children) ==
    IF todo = {}
    THEN {children}
    ELSE UNION {LET child == h[node].Children[part]
                    own == IF h[child].Value # NilPtr
                           THEN MapSet(children, part, child)
                           ELSE children
                IN  UNION {DirectChildrenRange(h, node, todo \ {part},
                                               Splice(own, part, sub)) :
                             sub \in RecursiveDirectChildrenOf(h, child)} :
                  part \in todo}

RecursiveDirectChildrenOf(h, node) ==
    DirectChildrenRange(h, node, DOMAIN h[node].Children, EmptyMap)

DirectChildrenRange(h, node, todo, children) ==
    IF todo = {}
    THEN {children}
    ELSE UNION {LET child == h[node].Children[part]
                IN  IF h[child].Value # NilPtr
                    THEN DirectChildrenRange(h, node, todo \ {part},
                                             MapSet(children, part, child))
                    ELSE UNION {DirectChildrenRange(h, node, todo \ {part},
                                                    Splice(children, part, sub)) :
                                  sub \in RecursiveDirectChildrenOf(h, child)} :
                  part \in todo}

(***************************************************************************)
(* Delete.  PathTrie's Delete is declared by Trier; it is modelled from    *)
(* its contract: walk to the key's node (false when a child is missing),   *)
(* clear its value, unlink it when it has no children and then every       *)
(* ancestor left without value and children, the root excepted; true when  *)
(* a value was removed.                                                    *)
(***************************************************************************)
\* The (parent, part) links followed from node to the key's node, or the
\* failure to find a child.
RECURSIVE DeletePath(_, _, _, _, _)
DeletePath(h, key, node, start, path) ==
    LET s == PathSegmenter(key, start)
    IN  IF s.segment = <<>>
        THEN [found |-> TRUE, node |-> node, path |-> path]
        ELSE IF Lookup(h, node, s.segment) = NilNode
             THEN [found |-> FALSE, node |-> NilNode, path |-> path]
             ELSE DeletePath(h, key, Lookup(h, node, s.segment), s.next,
                             Append(path, [node |-> node, part |-> s.segment]))

\* Unlink and destroy the node the last link leads to when it has neither
\* value nor children, and go on with its parent.
RECURSIVE Prune(_, _)
Prune(h, path) ==
    IF path = <<>>
    THEN h
    ELSE LET last == path[Len(path)]
             node == h[last.node].Children[last.part]
         IN  IF h[node].Value = NilPtr /\ DOMAIN h[node].Children = {}
             THEN Prune([x \in DOMAIN h \ {node} |->
                           IF x = last.node
                           THEN [h[x] EXCEPT !.Children = MapDelete(@, last.part)]
                           ELSE h[x]],
                        SubSeq(path, 1, Len(path) - 1))
             ELSE h

\* A Delete that unlinks the key's node although it has children.
DeleteOfUnlinkingSubtree(h, key) ==
    LET p == DeletePath(h, key, Root, 0, <<>>)
    IN  IF ~p.found
        THEN [heap |-> h, ret |-> FALSE]
        ELSE [heap |-> IF p.path = <<>> THEN h
                       ELSE [h EXCEPT ![p.path[Len(p.path)].node].Children =
                                        MapDelete(@, p.path[Len(p.path)].part)],
              ret |-> h[p.node].Value # NilPtr]

DeleteOf(h, key) ==
    LET p == DeletePath(h, key, Root, 0, <<>>)
    IN  IF ~p.found
        THEN [heap |-> h, ret |-> FALSE]
        ELSE [heap |-> Prune([h EXCEPT ![p.node].Value = NilPtr], p.path),
              ret |-> h[p.node].Value # NilPtr]

(***************************************************************************)
(* The calls                                                               *)
(***************************************************************************)
NoCall == [op |-> "new", key |-> <<>>, value |-> NilPtr, panic |-> FALSE,
           ret |-> <<>>, calls |-> <<>>, err |-> NoErr,
           node |-> NilNode, children |-> EmptyMap]

Init ==
    /\ heap = [n \in {Root} |-> newPathTrie]
    /\ res = NoCall
    /\ lastPut = EmptyMap
    /\ nputs = 0
    /\ merged = FALSE

\* Get, Walk, WalkPath and RecursiveDirectChildren leave every variable but
\* res as it was, and Put and Merge do not read res: a call made after a read
\* reaches the states the same call reaches when made before it.  So every
\* call is taken from a state the constructor, Put, Delete or Merge left;
\* each state of a longer run is the last state of such a run.
AfterWrite == res.op \in {"new", "Put", "Delete", "Merge"}

Get(key) ==
    /\ AfterWrite
    /\ res' = [NoCall EXCEPT !.op = "Get", !.key = key,
                             !.panic = GetOf(heap, key).panic,
                             !.ret = GetOf(heap, key).ret]
    /\ UNCHANGED <<heap, lastPut, nputs, merged>>

Put(key, value) ==
    /\ AfterWrite
    /\ nputs < MaxPuts
    /\ heap' = PutOf(heap, key, value)
    /\ res' = [NoCall EXCEPT !.op = "Put", !.key = key, !.value = Ptr(value),
                             !.panic = ReturnedNothing.panic,
                             !.ret = ReturnedNothing.ret]
    /\ lastPut' = MapSet(lastPut, key, value)
    /\ nputs' = nputs + 1
    /\ UNCHANGED merged

Delete(key) ==
    /\ AfterWrite
    /\ heap' = DeleteOf(heap, key).heap
    /\ res' = [NoCall EXCEPT !.op = "Delete", !.key = key,
                             !.ret = <<DeleteOf(heap, key).ret>>]
    /\ lastPut' = MapDelete(lastPut, key)
    /\ UNCHANGED <<nputs, merged>>

Walk ==
    /\ AfterWrite
    /\ \E o \in WalkOf(heap) :
          res' = [NoCall EXCEPT !.op = "Walk", !.calls = o.calls, !.err = o.err]
    /\ UNCHANGED <<heap, lastPut, nputs, merged>>

WalkPath(key) ==
    /\ AfterWrite
    /\ \E o \in WalkPathOf(heap, key) :
          res' = [NoCall EXCEPT !.op = "WalkPath", !.key = key,
                                 !.calls = o.calls, !.err = o.err]
    /\ UNCHANGED <<heap, lastPut, nputs, merged>>

Merge ==
    /\ AfterWrite
    /\ heap' \in MergeOf(heap)
    /\ res' = [NoCall EXCEPT !.op = "Merge"]
    /\ merged' = TRUE
    /\ UNCHANGED <<lastPut, nputs>>

\* A RecursiveDirectChildren that splices the grandchildren into the node it
\* is called on, as Merge does.
RecursiveDirectChildrenInPlace(node) ==
    /\ AfterWrite
    /\ \E children \in RecursiveDirectChildrenOf(heap, node) :
          /\ res' = [NoCall EXCEPT !.op = "RecursiveDirectChildren", !.node = node,
                                   !.children = children]
          /\ heap' = [heap EXCEPT ![node].Children = children]
    /\ UNCHANGED <<lastPut, nputs, merged>>

RecursiveDirectChildren(node) ==
    /\ AfterWrite
    /\ \E children \in RecursiveDirectChildrenOf(heap, node) :
          res' = [NoCall EXCEPT !.op = "RecursiveDirectChildren", !.node = node,
                                 !.children = children]
    /\ UNCHANGED <<heap, lastPut, nputs, merged>>

\* A trie built by Put, and the calls that read it.
Next ==
    \/ \E key \in Keys, value \in Values : Put(key, value)
    \/ \E key \in Keys : Get(key)
    \/ Walk
    \/ \E key \in Keys : WalkPath(key)
    \/ \E node \in DOMAIN heap : RecursiveDirectChildren(node)

Spec == Init /\ [][Next]_vars

\* Put and Merge in any order, and RecursiveDirectChildren on any node.
NextMerge ==
    \/ \E key \in Keys, value \in Values : Put(key, value)
    \/ Merge
    \/ \E node \in DOMAIN heap : RecursiveDirectChildren(node)

SpecMerge == Init /\ [][NextMerge]_vars

\* Put and Delete in any order, and Get.
NextDelete ==
    \/ \E key \in Keys, value \in Values : Put(key, value)
    \/ \E key \in Keys : Delete(key)
    \/ \E key \in Keys : Get(key)

SpecDelete == Init /\ [][NextDelete]_vars

\* Put and Merge in any order, and Walk.
NextMergeWalk ==
    \/ \E key \in Keys, value \in Values : Put(key, value)
    \/ Merge
    \/ Walk

SpecMergeWalk == Init /\ [][NextMergeWalk]_vars

(***************************************************************************)
(* What the claims speak of                                                *)
(***************************************************************************)
\* The keys that hold a value in a trie built by Put.
Stored == DOMAIN lastPut

\* The walker of the last Walk or WalkPath never returned an error.
NoWalkerError == \A i \in 1..Len(res.calls) : res.calls[i].err = NoErr

\* The (key, value) pairs the walker was called with, in call order.
Reported == [i \in 1..Len(res.calls) |-> <<res.calls[i].key, res.calls[i].value>>]

\* The segments of a key, in order.
RECURSIVE SegmentsFrom(_, _)
SegmentsFrom(key, start) ==
    LET s == PathSegmenter(key, start)
    IN  IF s.segment = <<>> THEN <<>>
        ELSE <<s.segment>> \o SegmentsFrom(key, s.next)

Segments(key) == SegmentsFrom(key, 0)

RECURSIVE Concat(_)
Concat(segs) == IF segs = <<>> THEN <<>> ELSE Head(segs) \o Concat(Tail(segs))

\* The segment-prefixes of a key, shortest (the empty key) first.
SegmentPrefixes(key) ==
    [i \in 1..(Len(Segments(key)) + 1) |-> Concat(SubSeq(Segments(key), 1, i - 1))]

IsStored(p) == p \in Stored
StoredPrefixes(key) == SelectSeq(SegmentPrefixes(key), IsStored)

\* C1: on a trie built by Put, Get of a key that was put returns the value
\* of the most recent Put of that key.
C1_GetReturnsLastPut ==
    (res.op = "Get" /\ res.key \in Stored)
        => (~res.panic /\ res.ret = <<lastPut[res.key]>>)

\* Get of a key that was put before a longer key with another value was put.
C1_Witness ==
    /\ res.op = "Get" /\ res.key \in Stored /\ ~res.panic
    /\ \E other \in Stored :
          /\ Len(other) > Len(res.key)
          /\ SubSeq(other, 1, Len(res.key)) = res.key
          /\ lastPut[other] # lastPut[res.key]

\* C2: Get never fails: for a key that holds no value it returns the zero
\* value, whether a child is missing on the path or the node reached is
\* internal.
C2_GetOfAbsentIsZero ==
    (res.op = "Get" /\ res.key \notin Stored)
        => (~res.panic /\ res.ret = <<Zero>>)

C4_PutReportsInsert ==
    [][res'.op = "Put" => res'.ret = <<res'.key \notin Stored>>]_vars

C6_WalkerErrorStops ==
    res.op \in {"Walk", "WalkPath"}
        => /\ \A i \in 1..Len(res.calls) :
                 res.calls[i].err # NoErr
                     => (i = Len(res.calls) /\ res.err = res.calls[i].err)
           /\ NoWalkerError => res.err = NoErr

\* A Walk over two stored keys that the walker's error ended at its first call.
C6_Witness ==
    /\ res.op = "Walk" /\ Cardinality(Stored) = 2
    /\ Len(res.calls) = 1 /\ res.calls[1].err # NoErr /\ res.err = res.calls[1].err

\* The node a key's segments lead to from the root, or nil.
RECURSIVE NodeFrom(_, _, _, _)
NodeFrom(h, key, node, start) ==
    LET s == PathSegmenter(key, start)
    IN  IF s.segment = <<>> THEN node
        ELSE IF s.segment \in DOMAIN h[node].Children
             THEN NodeFrom(h, key, h[node].Children[s.segment], s.next)
             ELSE NilNode

NodeAt(h, key) == NodeFrom(h, key, Root, 0)
Holds(h, key) == NodeAt(h, key) # NilNode /\ h[NodeAt(h, key)].Value # NilPtr
ValueAt(h, key) == Deref(h[NodeAt(h, key)].Value)

\* C7: for every key that holds a value before Merge is called on the root,
\* Get with that key returns the same value after Merge.
C7_MergeKeepsGet ==
    [][res'.op = "Merge"
         => \A k \in Keys :
              Holds(heap, k) => GetOf(heap', k) = Returned(ValueAt(heap, k))]_vars

\* The walks a walker that never errors can see: for each, the number of
\* calls and the set of (key, value) pairs it was called with.
Reports(h) ==
    {[n |-> Len(o.calls),
      keys |-> {o.calls[i].key : i \in 1..Len(o.calls)},
      pairs |-> {<<o.calls[i].key, o.calls[i].value>> : i \in 1..Len(o.calls)}] :
       o \in {w \in WalkOf(h) : \A i \in 1..Len(w.calls) : w.calls[i].err = NoErr}}

\* C8: on a trie built by Put, Merge on the root leaves what Walk reports
\* unchanged: the same keys, each once, with the same values.
C8_MergeKeepsWalk ==
    [][(res'.op = "Merge" /\ ~merged)
         => /\ \A a \in Reports(heap), b \in Reports(heap') :
                  a.pairs = b.pairs /\ a.n = b.n
            /\ \A b \in Reports(heap') : Cardinality(b.keys) = b.n]_vars

\* Merge has put a node of the root's grandchildren under the root, keyed by
\* two segments, in a trie that holds two keys.
C8_Witness ==
    /\ res.op = "Merge" /\ Cardinality(Stored) = 2
    /\ \E part \in DOMAIN heap[Root].Children : Len(Segments(part)) = 2

\* The value-bearing descendants of a node with no value-bearing node
\* strictly between, each with the concatenation of the segments from the
\* node down to it.
RECURSIVE Nearest(_, _)
Nearest(h, node) ==
    UNION {IF h[h[node].Children[part]].Value # NilPtr
           THEN {<<part, h[node].Children[part]>>}
           ELSE {<<part \o p[1], p[2]>> : p \in Nearest(h, h[node].Children[part])} :
             part \in DOMAIN h[node].Children}

C11_DeleteRemoves ==
    [][(res'.op = "Delete" /\ res'.key \in Stored)
         => /\ res'.ret = <<TRUE>>
            /\ GetOf(heap', res'.key) = Returned(Zero)
            /\ \A o \in WalkOf(heap') :
                  \A i \in 1..Len(o.calls) : o.calls[i].key # res'.key
            /\ \A k \in Stored \ {res'.key} :
                  GetOf(heap', k) = Returned(lastPut[k])]_vars

\* C12: Delete of a key that was never inserted returns false and leaves
\* every node's value and children unchanged (checked for every key that
\* holds no value, never inserted or deleted since).
C12_DeleteAbsentNoop ==
    [][(res'.op = "Delete" /\ res'.key \notin Stored)
         => (res'.ret = <<FALSE>> /\ heap' = heap)]_vars

\* Delete has returned false for a key never inserted (every Put so far put
\* another key, and all of them are still stored) whose node exists as an
\* internal node on the way to a stored key.
C12_Witness ==
    /\ res.op = "Delete" /\ res.ret = <<FALSE>>
    /\ nputs = 2 /\ Cardinality(Stored) = 2 /\ res.key \notin Stored
    /\ res.key # <<>> /\ NodeAt(heap, res.key) # NilNode

\* C13: a stored value equal to the zero value is taken for no value:
\* after Put(k, zero value) Walk and WalkPath do not call the walker for k.
C13_ZeroIsNoValue ==
    res.op \in {"Walk", "WalkPath"}
        => \A i \in 1..Len(res.calls) :
             res.calls[i].key \in Stored => lastPut[res.calls[i].key] # Zero

\* The nodes reachable from the root through the children mappings.
RECURSIVE ReachableFrom(_, _)
ReachableFrom(h, seen) ==
    LET next == seen \cup UNION {{h[n].Children[part] : part \in DOMAIN h[n].Children} :
                                   n \in seen}
    IN  IF next = seen THEN seen ELSE ReachableFrom(h, next)

Reachable(h) == ReachableFrom(h, {Root})

\* The children-mapping entries of the reachable nodes: parent, key, child.
Entries(h) ==
    UNION {{<<parent, part, h[parent].Children[part]>> :
              part \in DOMAIN h[parent].Children} : parent \in Reachable(h)}

\* C14: when Merge on the root completes, every reachable node other than the
\* root holds a value: no valueless leaf or bridge remains in the tree.
C14_MergeLeavesNoValueless ==
    res.op = "Merge"
        => \A n \in Reachable(heap) \ {Root} : heap[n].Value # NilPtr

\* Merge has taken a valueless node out of the tree and left two nodes
\* below the root.
C14_Witness ==
    /\ res.op = "Merge" /\ Cardinality(Reachable(heap)) = 3
    /\ \E n \in DOMAIN heap \ Reachable(heap) : heap[n].Value = NilPtr

\* C15: after any sequence of Put and Merge, every node reachable from the
\* root other than the root is referenced by exactly one entry of one
\* parent's children, and the root by none (a tree: nothing shared, no cycle).
C15_TreeShape ==
    LET entries == Entries(heap)
    IN  \A n \in Reachable(heap) :
           Cardinality({e \in entries : e[3] = n}) = IF n = Root THEN 0 ELSE 1

\* After a Merge that spliced a grandchild under the root, a Put has added a
\* node below a child of the root.
C15_Witness ==
    /\ res.op = "Put" /\ merged
    /\ \E part \in DOMAIN heap[Root].Children : Len(Segments(part)) = 2
    /\ \E part \in DOMAIN heap[Root].Children :
          DOMAIN heap[heap[Root].Children[part]].Children # {}

\* C16: after any interleaving of Put and Merge, Walk with a walker that
\* never errors reports no key twice and reports, for each key ever put, the
\* value of its most recent Put.
C16_WalkAfterPutAndMerge ==
    (res.op = "Walk" /\ NoWalkerError)
        => /\ \A i, j \in 1..Len(res.calls) :
                  i # j => res.calls[i].key # res.calls[j].key
           /\ \A k \in Stored :
                  \E i \in 1..Len(res.calls) : Reported[i] = <<k, lastPut[k]>>
           /\ \A i \in 1..Len(res.calls) :
                  res.calls[i].key \in Stored
                    /\ res.calls[i].value = lastPut[res.calls[i].key]

\* C17: on a trie built by Put, the children of the root after Merge are the
\* mapping RecursiveDirectChildren returned on the root just before: the
\* same keys, mapped to the same nodes.
C17_MergeIsDirectChildren ==
    [][(res'.op = "Merge" /\ ~merged)
         => RecursiveDirectChildrenOf(heap, Root) = {heap'[Root].Children}]_vars

\* Merge has left under the root a child that held a value and, beside it, a
\* node taken from below a valueless child.
C17_Witness ==
    /\ res.op = "Merge" /\ nputs = 2
    /\ \E part \in DOMAIN heap[Root].Children : Len(Segments(part)) = 2
    /\ \E part \in DOMAIN heap[Root].Children : Len(Segments(part)) = 1

\* C18: a second Merge directly after a Merge changes no node's value and
\* no children mapping.
C18_MergeIdempotent ==
    [][(res.op = "Merge" /\ res'.op = "Merge") => heap' = heap]_vars

\* A Merge that changed the trie (it spliced the only stored key under the
\* root) has completed, and a second Merge on its result changes nothing.
C18_Witness ==
    /\ res.op = "Merge" /\ nputs = 1
    /\ \E part \in DOMAIN heap[Root].Children : Len(Segments(part)) = 2
    /\ MergeOf(heap) = {heap}

====
